---- MODULE Spec2Model ----
(***************************************************************************)
(* Model of taupy/tau.py: the TauPyModel facade (constructor with its      *)
(* load / build / retry fallback, the three get_* dispatch methods, the    *)
(* static create_taup_model) and the Arrivals result container.            *)
(*                                                                         *)
(* The collaborators imported at lines 7-11 (load, TauP_Time, TauP_Pierce, *)
(* TauP_Path, TauP_Create) are not part of tau.py: every call into them is *)
(* a nondeterministic choice over the outcomes a call can have (a value or *)
(* a raised exception), and what the facade passes to them is recorded.    *)
(*                                                                         *)
(* Strings the code inspects are sequences of one-character strings.       *)
(* An optional value is None (the empty sequence) or Some(v) == <<v>>.     *)
(***************************************************************************)
EXTENDS Integers, Sequences, FiniteSets, TLC

VARIABLES
    cpc,          \* position of the one TauPyModel.__init__ activation
    cmodel,       \* its `model` argument
    cverbose,     \* its `verbose` argument
    cexc,         \* the exception that left __init__ ("" when none)
    model,        \* self.model: None or Some(velocity model)
    verboseAttr,  \* self.verbose: None or Some(boolean)
    trace,        \* every load / print / TauP_Create.main call, in order
    frames,       \* the get_* activations in progress, by call number
    done,         \* the finished get_* calls, by call number
    ncalls,       \* how many get_* calls have been started
    engines,      \* the live engine objects, by object identity
    nengines,     \* how many engine objects have been created
    collections   \* the Arrivals objects created so far, by object identity

vars == <<cpc, cmodel, cverbose, cexc, model, verboseAttr, trace,
          frames, done, ncalls, engines, nengines, collections>>

ctorVars == <<cpc, cmodel, cverbose, cexc, model, verboseAttr>>
getVars == <<frames, done, ncalls, engines, nengines, collections>>

----------------------------------------------------------------------------
(* Bounds of the model *)

MaxDirectBuilds == 1
MaxCalls == 2
MaxConcurrent == 2
MaxArrivals == 2

----------------------------------------------------------------------------
(* Values *)

None == <<>>
Some(v) == <<v>>

IASP91 == <<"i", "a", "s", "p", "9", "1">>
ModelNames == {IASP91, <<"q", ".", "n", "d">>, <<".", "x">>}

\* a loaded velocity model: self.model.sMod.vMod.modelName is all tau.py reads
Models == {[modelName |-> IASP91], [modelName |-> <<"q", ".", "n", "d">>]}

TaupModelPath == "<pkg>/data/taup_models"
OutputDirs == {TaupModelPath, "/tmp/out"}

\* what load() can raise; "ok" stands for a normal return
LoadErrors == {"FileNotFoundError", "ValueError", "EOFError"}
BuildErrors == {"FileNotFoundError", "IndexError"}
EngineErrors == {"ValueError", "KeyError"}

\* one recorded call into a collaborator (or print): `name` and `dir` are
\* what the collaborator was handed, `arg` and `argdir` what the caller of
\* the method that made the call had supplied, `result` how the call ended
\* ("ok" or the exception raised) and `value` what it returned
Call(op, by, arg, argdir, name, dir, verbose, result, value) ==
    [op |-> op, by |-> by, arg |-> arg, argdir |-> argdir, name |-> name,
     dir |-> dir, verbose |-> verbose, result |-> result, value |-> value]

----------------------------------------------------------------------------
(* create_taup_model: the file name handed to TauP_Create.main *)

Contains(s, ch) == \E i \in 1..Len(s) : s[i] = ch

TvelExt == <<".", "t", "v", "e", "l">>

ModelFileNameAlwaysTvel(model_name) == model_name \o TvelExt

ModelFileName(model_name) ==
    IF Contains(model_name, ".") THEN model_name ELSE model_name \o TvelExt

\* the call TauP_Create.main(model_file_name, output_dir) of line 129
BuildCall(by, model_name, output_dir, result) ==
    Call("build", by, model_name, output_dir,
         ModelFileName(model_name), output_dir, FALSE, result, None)

\* the static method called directly: no load, no use of self
CreateTaupModel(model_name, output_dir) ==
    /\ \E r \in {"ok"} \cup BuildErrors :
          trace' = Append(trace, BuildCall("direct", model_name, output_dir, r))
    /\ UNCHANGED <<ctorVars, getVars>>

----------------------------------------------------------------------------
(* TauPyModel.__init__ *)

\* the except clause of line 52
CaughtAny(e) == TRUE

Caught(e) == e = "FileNotFoundError"

\* the call load(model, taup_model_path, verbose=verbose) of lines 51 and 57,
\* ending with result r and, when r is "ok", returning the model vm
LoadCall(r, vm) ==
    Call("load", "ctor", cmodel, TaupModelPath, cmodel, TaupModelPath,
         cverbose, r, IF r = "ok" THEN Some(vm) ELSE None)

\* line 41 and lines 48-50: the call binds its arguments and enters the try
TauPyModelInit(m, v) ==
    /\ cpc = "idle"
    /\ cpc' = "L51"
    /\ cmodel' = m
    /\ cverbose' = v
    /\ UNCHANGED <<cexc, model, verboseAttr, trace, getVars>>

\* line 51: self.model = load(model, taup_model_path, verbose=verbose)
Load1 ==
    /\ cpc = "L51"
    /\ \E r \in {"ok"} \cup LoadErrors, vm \in Models :
          /\ trace' = Append(trace, LoadCall(r, vm))
          /\ IF r = "ok"
             THEN /\ model' = Some(vm)
                  /\ cpc' = "L58"
                  /\ cexc' = cexc
             ELSE IF Caught(r)
             THEN /\ cpc' = "L53"
                  /\ UNCHANGED <<model, cexc>>
             ELSE /\ cpc' = "raised"
                  /\ cexc' = r
                  /\ model' = model
    /\ UNCHANGED <<cmodel, cverbose, verboseAttr, getVars>>

DiagnosticOmitted ==
    /\ cpc = "L53"
    /\ cpc' = "L56"
    /\ UNCHANGED <<cmodel, cverbose, cexc, model, verboseAttr, trace, getVars>>

\* lines 53-55: the diagnostic
Diagnostic ==
    /\ cpc = "L53"
    /\ trace' = Append(trace,
           Call("print", "ctor", cmodel, "", cmodel, "", FALSE, "ok", None))
    /\ cpc' = "L56"
    /\ UNCHANGED <<cmodel, cverbose, cexc, model, verboseAttr, getVars>>

\* what can follow the build of line 56: the retry load, or nothing more
AfterBuildRetryBuild(r) == IF r = "ok" THEN "L57" ELSE "L56"

AfterBuild(r) == IF r = "ok" THEN "L57" ELSE "raised"

\* line 56: self.create_taup_model(model, taup_model_path)
Build ==
    /\ cpc = "L56"
    /\ \E r \in {"ok"} \cup BuildErrors :
          /\ trace' = Append(trace, BuildCall("ctor", cmodel, TaupModelPath, r))
          /\ cpc' = AfterBuild(r)
          /\ cexc' = IF cpc' = "raised" THEN r ELSE cexc
    /\ UNCHANGED <<cmodel, cverbose, model, verboseAttr, getVars>>

\* line 57: self.model = load(model, taup_model_path, verbose=verbose),
\* inside the handler: nothing catches what it raises
Load2 ==
    /\ cpc = "L57"
    /\ \E r \in {"ok"} \cup LoadErrors, vm \in Models :
          /\ trace' = Append(trace, LoadCall(r, vm))
          /\ IF r = "ok"
             THEN /\ model' = Some(vm)
                  /\ cpc' = "L58"
                  /\ cexc' = cexc
             ELSE /\ cpc' = "raised"
                  /\ cexc' = r
                  /\ model' = model
    /\ UNCHANGED <<cmodel, cverbose, verboseAttr, getVars>>

\* line 58: self.verbose = verbose
SetVerbose ==
    /\ cpc = "L58"
    /\ verboseAttr' = Some(cverbose)
    /\ cpc' = "done"
    /\ UNCHANGED <<cmodel, cverbose, cexc, model, trace, getVars>>

DirectBuilds == Len(SelectSeq(trace, LAMBDA c : c.by = "direct"))

InitCtor ==
    /\ cpc = "idle"
    /\ cmodel = IASP91
    /\ cverbose = FALSE
    /\ cexc = ""
    /\ model = None
    /\ verboseAttr = None
    /\ trace = <<>>
    /\ frames = <<>>
    /\ done = <<>>
    /\ ncalls = 0
    /\ engines = <<>>
    /\ nengines = 0
    /\ collections = <<>>

NextCtor ==
    \/ \E m \in ModelNames, v \in BOOLEAN : TauPyModelInit(m, v)
    \/ Load1
    \/ Diagnostic
    \/ Build
    \/ Load2
    \/ SetVerbose
    \/ /\ DirectBuilds < MaxDirectBuilds
       /\ \E m \in ModelNames, d \in OutputDirs : CreateTaupModel(m, d)

SpecCtor == InitCtor /\ [][NextCtor]_vars

----------------------------------------------------------------------------
(* Properties of construction and of create_taup_model (under SpecCtor) *)

CtorTrace == SelectSeq(trace, LAMBDA c : c.by = "ctor")
Ops(t) == [i \in 1..Len(t) |-> t[i].op]
IsPrefix(s, t) == Len(s) <= Len(t) /\ \A i \in 1..Len(s) : s[i] = t[i]
FallbackOps == <<"load", "print", "build", "load">>
FirstLoadResult == IF CtorTrace = <<>> THEN "" ELSE CtorTrace[1].result

\* C1: a construction whose first load reports "not found" performs the
\* diagnostic, then one build, then one retry load, in this order and nothing
\* else; so a construction never performs more than two loads or more than one
\* build, and the build is never before the first load or after the retry.
C1_FallbackSequence ==
    /\ IsPrefix(Ops(CtorTrace), FallbackOps)
    /\ FirstLoadResult = "FileNotFoundError" =>
          /\ cpc = "L53" <=> Len(CtorTrace) = 1
          /\ cpc = "L56" <=> Len(CtorTrace) = 2
          /\ cpc = "L57" <=> (Len(CtorTrace) = 3 /\ CtorTrace[3].result = "ok")
          /\ cpc \in {"L58", "done"} =>
                (Ops(CtorTrace) = FallbackOps /\ CtorTrace[4].result = "ok")
    /\ FirstLoadResult # "FileNotFoundError" => Len(CtorTrace) <= 1

C1_Witness ==
    /\ cpc = "done"
    /\ Ops(CtorTrace) = FallbackOps
    /\ CtorTrace[1].result = "FileNotFoundError"

\* C2: a first load that fails with anything but "not found" ends the
\* construction with that very error: no diagnostic, no build, no second
\* load, and no model (nor anything else) bound to the facade.
C2_OtherLoadErrorPropagates ==
    FirstLoadResult \notin {"", "ok", "FileNotFoundError"} =>
        /\ cpc = "raised"
        /\ cexc = FirstLoadResult
        /\ Len(CtorTrace) = 1
        /\ model = None
        /\ verboseAttr = None

C2_Witness ==
    /\ cpc = "raised"
    /\ FirstLoadResult = "ValueError"
    /\ cexc = "ValueError"

\* C3: when the build raises, or the retry load fails with any error, the
\* construction ends with that very error, the failed call is the last call
\* it makes (no load after a failed build, one build only before a failed
\* retry load) and the facade has no bound model.
C3_RecoveryFailurePropagates ==
    /\ (Len(CtorTrace) >= 3 /\ CtorTrace[3].result # "ok") =>
          /\ cpc = "raised"
          /\ cexc = CtorTrace[3].result
          /\ Ops(CtorTrace) = <<"load", "print", "build">>
          /\ model = None
    /\ (Len(CtorTrace) >= 4 /\ CtorTrace[4].result # "ok") =>
          /\ cpc = "raised"
          /\ cexc = CtorTrace[4].result
          /\ Ops(CtorTrace) = FallbackOps
          /\ model = None

C3_Witness ==
    /\ cpc = "raised"
    /\ Len(CtorTrace) = 4
    /\ CtorTrace[4].result = "FileNotFoundError"
    /\ cexc = "FileNotFoundError"

C3_WitnessBuildError ==
    /\ cpc = "raised"
    /\ Len(CtorTrace) = 3
    /\ CtorTrace[3].result = "FileNotFoundError"

ExpectedFile(rec) ==
    IF \E i \in 1..Len(rec.arg) : rec.arg[i] = "."
    THEN rec.name = rec.arg
    ELSE /\ Len(rec.name) = Len(rec.arg) + 5
         /\ SubSeq(rec.name, 1, Len(rec.arg)) = rec.arg
         /\ SubSeq(rec.name, Len(rec.arg) + 1, Len(rec.name))
               = <<".", "t", "v", "e", "l">>

BuildsWellFormed ==
    \A i \in 1..Len(trace) :
        /\ trace[i].op = "build" =>
              /\ ExpectedFile(trace[i])
              /\ trace[i].dir = trace[i].argdir
              /\ trace[i].by = "ctor" =>
                    (trace[i].arg = cmodel /\ trace[i].dir = TaupModelPath)
        /\ trace[i].by = "direct" => trace[i].op = "build"

DirectBuildStep ==
    DirectBuilds' > DirectBuilds =>
        /\ Len(trace') = Len(trace) + 1
        /\ UNCHANGED <<ctorVars, getVars>>

\* C4: every build call hands the builder the model name verbatim when it
\* contains a ".", the model name followed by ".tvel" otherwise, and the
\* directory it was given (the model directory, and the constructor's own
\* model name, in the fallback); a direct create_taup_model call makes that
\* one build call, no load, and leaves the facade as it was.
C4_BuildFileName == []BuildsWellFormed /\ [][DirectBuildStep]_vars

C4_Witness ==
    /\ \E i \in 1..Len(trace) :
          /\ trace[i].op = "build" /\ trace[i].by = "ctor"
          /\ trace[i].arg = <<"q", ".", "n", "d">>
    /\ \E i \in 1..Len(trace) :
          /\ trace[i].op = "build" /\ trace[i].by = "direct"
          /\ trace[i].arg = IASP91
          /\ trace[i].name = IASP91 \o TvelExt
          /\ trace[i].dir = "/tmp/out"

----------------------------------------------------------------------------
(* Arrivals: the list subclass of lines 14-19 *)

ArrivalRecords == {"arrival1", "arrival2"}

BoundedSeq(S, n) == UNION {[1..k -> S] : k \in 0..n}

\* what an engine can leave in its `arrivals` attribute after run
ArrivalSeqs == BoundedSeq(ArrivalRecords, MaxArrivals)

\* list.extend: the items are appended one by one, in their order
RECURSIVE ListExtend(_, _)
ListExtend(self, items) ==
    IF items = <<>> THEN self
    ELSE ListExtend(Append(self, Head(items)), Tail(items))

RECURSIVE Unique(_)
Unique(items) ==
    IF items = <<>> THEN <<>>
    ELSE LET rest == Unique(SubSeq(items, 1, Len(items) - 1))
             last == items[Len(items)]
         IN  IF \E i \in 1..Len(rest) : rest[i] = last
             THEN rest ELSE Append(rest, last)

ArrivalsUnique(arrivals) == ListExtend(<<>>, Unique(arrivals))

\* Arrivals.__init__: an empty list (line 18) extended by `arrivals` (line 19)
Arrivals(arrivals) == ListExtend(<<>>, arrivals)

----------------------------------------------------------------------------
(* The get_* methods *)

Put(f, k, v) == [x \in DOMAIN f \cup {k} |-> IF x = k THEN v ELSE f[x]]
Remove(f, k) == [x \in DOMAIN f \ {k} |-> f[x]]

\* argument values the callers use
Depths == {10}
Distances == {None, Some(20)}
CoordinateLists == {None, Some(<<13, 14, 50, 200>>)}
PhaseLists == {None, Some(<<>>), Some(<<"ttall">>), Some(<<"S", "P">>)}

\* the conditional expression of lines 100, 108 and 117
PhaseListOrDefault(phase_list) ==
    IF phase_list # None THEN phase_list[1] ELSE <<"ttall">>

ModelNameRequested == cmodel

\* self.model.sMod.vMod.modelName
ModelName == model[1].modelName

\* a constructor call creates a new object each time
CachedEngine ==
    IF DOMAIN engines # {} THEN CHOOSE e \in DOMAIN engines : TRUE
    ELSE nengines + 1

NewEngine == nengines + 1

NewCollection == Len(collections) + 1

\* the positional arguments of the TauP_Time(...) call of lines 101-102
TimeArgsOneGeometry(phase_list, source_depth_in_km, distance_in_degree, coordinate_list) ==
    <<phase_list, ModelName, source_depth_in_km, distance_in_degree,
      IF distance_in_degree # None THEN None ELSE coordinate_list>>

TimeArgs(phase_list, source_depth_in_km, distance_in_degree, coordinate_list) ==
    <<phase_list, ModelName, source_depth_in_km, distance_in_degree,
      coordinate_list>>

\* the positional arguments of the TauP_Pierce(...) and TauP_Path(...) calls
\* of lines 109-110 and 118-119
DistanceArgs(phase_list, source_depth_in_km, distance_in_degree) ==
    <<phase_list, ModelName, source_depth_in_km, distance_in_degree>>

\* no try statement encloses lines 100-104, 108-113, 117-121: what an engine
\* raises is what leaves the method
Translated(e) == "TauPyError"

Uncaught(e) == e

Frame(method, source_depth_in_km, distance_in_degree, phase_arg, phase_list, print_output, coordinate_list, engine) ==
    [method |-> method, pc |-> "run",
     source_depth_in_km |-> source_depth_in_km,
     distance_in_degree |-> distance_in_degree,
     phase_arg |-> phase_arg, phase_list |-> phase_list,
     print_output |-> print_output, coordinate_list |-> coordinate_list,
     engine |-> engine, out |-> None]

\* how a call ended: `site` is the collaborator call that raised ("" when
\* none did), `thrown` what it raised, `exc` what left the method, `result`
\* the identity of the returned Arrivals (0 when none), `out` the arrivals
\* this call's run produced and `runs` the run calls this call made
Raised(site, e, runs) ==
    [outcome |-> "raised", site |-> site, thrown |-> e, exc |-> Uncaught(e),
     result |-> 0, out |-> None, runs |-> runs]

Returned(result, out, runs) ==
    [outcome |-> "returned", site |-> "", thrown |-> "", exc |-> "",
     result |-> result, out |-> out, runs |-> runs]

\* lines 100-102, 108-110, 117-119: the phase list is defaulted and the
\* engine of the given kind is constructed from args
Dispatch(method, kind, args, frame) ==
    /\ cpc = "done"
    /\ ncalls' = ncalls + 1
    /\ \E r \in {"ok"} \cup EngineErrors :
          IF r = "ok"
          THEN /\ engines' = Put(engines, NewEngine,
                      [kind |-> kind, args |-> args, runArgs |-> <<>>,
                       arrivals |-> None])
               /\ nengines' = nengines + 1
               /\ frames' = Put(frames, ncalls + 1, frame)
               /\ done' = done
          ELSE /\ done' = Put(done, ncalls + 1, Raised("init", r, 0))
               /\ UNCHANGED <<engines, nengines, frames>>
    /\ UNCHANGED <<ctorVars, trace, collections>>

GetTravelTime(source_depth_in_km, distance_in_degree, phase_list, print_output, coordinate_list) ==
    LET pl == PhaseListOrDefault(phase_list)
    IN  Dispatch("get_travel_time", "TauP_Time",
            TimeArgs(pl, source_depth_in_km, distance_in_degree,
                     coordinate_list),
            Frame("get_travel_time", source_depth_in_km, distance_in_degree,
                  phase_list, pl, print_output, coordinate_list, NewEngine))

GetPiercePoints(source_depth_in_km, distance_in_degree, phase_list, print_output) ==
    LET pl == PhaseListOrDefault(phase_list)
    IN  Dispatch("get_pierce_points", "TauP_Pierce",
            DistanceArgs(pl, source_depth_in_km, distance_in_degree),
            Frame("get_pierce_points", source_depth_in_km,
                  distance_in_degree, phase_list, pl, print_output, None,
                  NewEngine))

GetRayPaths(source_depth_in_km, distance_in_degree, phase_list, print_output) ==
    LET pl == PhaseListOrDefault(phase_list)
    IN  Dispatch("get_ray_paths", "TauP_Path",
            DistanceArgs(pl, source_depth_in_km, distance_in_degree),
            Frame("get_ray_paths", source_depth_in_km, distance_in_degree,
                  phase_list, pl, print_output, None, NewEngine))

\* lines 103, 111, 120: engine.run(print_output); the run ends with result
\* r: "ok", leaving the sequence `out` in the engine's `arrivals` attribute,
\* or an exception
Run(c, r, out) ==
    /\ frames[c].pc = "run"
    /\ LET e == frames[c].engine
       IN  IF r = "ok"
           THEN /\ engines' = [engines EXCEPT
                       ![e].runArgs = Append(@, frames[c].print_output),
                       ![e].arrivals = Some(out)]
                /\ frames' = [frames EXCEPT ![c].pc = "ret",
                                            ![c].out = Some(out)]
                /\ done' = done
           ELSE /\ done' = Put(done, c,
                       Raised("run", r, Len(engines[e].runArgs) + 1))
                /\ frames' = Remove(frames, c)
                /\ engines' = Remove(engines, e)
    /\ UNCHANGED <<ctorVars, trace, ncalls, nengines, collections>>

\* lines 104, 113, 121: return Arrivals(engine.arrivals)
Return(c) ==
    /\ frames[c].pc = "ret"
    /\ LET e == frames[c].engine
       IN  /\ collections' = Put(collections, NewCollection,
                                 Arrivals(engines[e].arrivals[1]))
           /\ done' = Put(done, c,
                   Returned(NewCollection, frames[c].out,
                            Len(engines[e].runArgs)))
           /\ frames' = Remove(frames, c)
           /\ engines' = Remove(engines, e)
    /\ UNCHANGED <<ctorVars, trace, ncalls, nengines>>

TravelTimeRun(c, r, out) ==
    frames[c].method = "get_travel_time" /\ Run(c, r, out)
TravelTimeReturn(c) == frames[c].method = "get_travel_time" /\ Return(c)
PiercePointsRun(c, r, out) ==
    frames[c].method = "get_pierce_points" /\ Run(c, r, out)
PiercePointsReturn(c) == frames[c].method = "get_pierce_points" /\ Return(c)
RayPathsRun(c, r, out) ==
    frames[c].method = "get_ray_paths" /\ Run(c, r, out)
RayPathsReturn(c) == frames[c].method = "get_ray_paths" /\ Return(c)

\* a facade constructed with the default arguments whose first load succeeded
Init ==
    /\ cpc = "done"
    /\ cmodel = IASP91
    /\ cverbose = FALSE
    /\ cexc = ""
    /\ verboseAttr = Some(FALSE)
    /\ \E vm \in Models :
          /\ model = Some(vm)
          /\ trace = <<Call("load", "ctor", IASP91, TaupModelPath, IASP91,
                            TaupModelPath, FALSE, "ok", Some(vm))>>
    /\ frames = <<>>
    /\ done = <<>>
    /\ ncalls = 0
    /\ engines = <<>>
    /\ nengines = 0
    /\ collections = <<>>

\* the lines after the engine's construction, for the calls in progress;
\* outs is what the engines' runs can produce
Steps(outs) ==
    \/ \E c \in DOMAIN frames, r \in {"ok"} \cup EngineErrors :
          \E out \in IF r = "ok" THEN outs ELSE {<<>>} : TravelTimeRun(c, r, out)
    \/ \E c \in DOMAIN frames : TravelTimeReturn(c)
    \/ \E c \in DOMAIN frames, r \in {"ok"} \cup EngineErrors :
          \E out \in IF r = "ok" THEN outs ELSE {<<>>} : PiercePointsRun(c, r, out)
    \/ \E c \in DOMAIN frames : PiercePointsReturn(c)
    \/ \E c \in DOMAIN frames, r \in {"ok"} \cup EngineErrors :
          \E out \in IF r = "ok" THEN outs ELSE {<<>>} : RayPathsRun(c, r, out)
    \/ \E c \in DOMAIN frames : RayPathsReturn(c)

\* one caller: a call starts when the previous one has ended
Next ==
    \/ /\ ncalls < MaxCalls
       /\ frames = <<>>
       /\ \E d \in Depths, dist \in Distances, pl \in PhaseLists,
             po \in BOOLEAN, cl \in CoordinateLists :
             GetTravelTime(d, dist, pl, po, cl)
    \/ /\ ncalls < MaxCalls
       /\ frames = <<>>
       /\ \E d \in Depths, dist \in Distances, pl \in PhaseLists,
             po \in BOOLEAN :
             GetPiercePoints(d, dist, pl, po)
    \/ /\ ncalls < MaxCalls
       /\ frames = <<>>
       /\ \E d \in Depths, dist \in Distances, pl \in PhaseLists,
             po \in BOOLEAN :
             GetRayPaths(d, dist, pl, po)
    \/ Steps(ArrivalSeqs)

Spec == Init /\ [][Next]_vars

\* what the engines produce for the overlapping calls
ConcArrivalSeqs ==
    {<<>>, <<"arrival1">>, <<"arrival2", "arrival1">>}

\* several callers of one facade: calls overlap, each at most at one of its
\* lines at a time
NextConc ==
    \/ /\ ncalls < MaxConcurrent
       /\ \E pl \in {None, Some(<<"S", "P">>)}, cl \in CoordinateLists :
             GetTravelTime(10, None, pl, FALSE, cl)
    \/ /\ ncalls < MaxConcurrent
       /\ \E pl \in {None, Some(<<"S", "P">>)} :
             GetPiercePoints(10, Some(20), pl, TRUE)
    \/ /\ ncalls < MaxConcurrent
       /\ \E pl \in {None, Some(<<"S", "P">>)} :
             GetRayPaths(10, Some(20), pl, FALSE)
    \/ Steps(ConcArrivalSeqs)

SpecConc == Init /\ [][NextConc]_vars

----------------------------------------------------------------------------
(* Properties of the get_* methods (under Spec and SpecConc) *)

EngineOf(c) == engines[frames[c].engine]
BoundModel == trace[1].value
ReturnedCalls == {c \in DOMAIN done : done[c].outcome = "returned"}
RaisedCalls == {c \in DOMAIN done : done[c].outcome = "raised"}

\* C5: the phase list handed to the engine is ["ttall"] when the caller's
\* phase_list is omitted or empty, and the caller's own sequence otherwise.
C5_DefaultWhenOmittedOrEmpty ==
    \A c \in DOMAIN frames :
        LET given == frames[c].phase_arg
            sent == EngineOf(c).args[1]
        IN  IF given = None \/ given = Some(<<>>)
            THEN sent = <<"ttall">>
            ELSE sent = given[1]

\* C6: after construction no get_* call, failing or not, loads or builds
\* anything or rebinds the model, and every engine request carries the name
\* of the model bound at construction.
C6_ModelBoundOnce ==
    /\ Len(trace) = 1
    /\ trace[1].op = "load"
    /\ model = BoundModel
    /\ \A e \in DOMAIN engines : engines[e].args[2] = BoundModel[1].modelName

C6_Witness ==
    /\ ncalls = MaxCalls
    /\ 1 \in RaisedCalls
    /\ DOMAIN frames = {MaxCalls}
    /\ frames[MaxCalls].pc = "ret"
    /\ EngineOf(MaxCalls).args[2] # cmodel

\* C7: a returned collection has the length of the engine's arrivals after
\* run and the same element at every index.
C7_ArrivalsPreserved ==
    \A c \in ReturnedCalls :
        LET col == collections[done[c].result]
            out == done[c].out[1]
        IN  /\ Len(col) = Len(out)
            /\ \A i \in 1..Len(out) : col[i] = out[i]

C7_Witness ==
    /\ ReturnedCalls = {1, 2}
    /\ done[1].out = Some(<<"arrival2", "arrival2">>)
    /\ collections[done[1].result] = <<"arrival2", "arrival2">>
    /\ done[2].out = Some(<<>>)
    /\ collections[done[2].result] = <<>>

\* C8: when an engine's construction or run fails, the error it raised is
\* the error the caller gets, the call produces no collection, the bound
\* model is as before and nothing of the failed call stays behind for a
\* later call to meet.
C8_EngineErrorPropagates ==
    /\ \A c \in RaisedCalls :
          /\ done[c].thrown \in EngineErrors
          /\ done[c].exc = done[c].thrown
          /\ done[c].result = 0
    /\ Cardinality(DOMAIN collections) = Cardinality(ReturnedCalls)
    /\ model = BoundModel
    /\ DOMAIN engines = {frames[c].engine : c \in DOMAIN frames}

C8_Witness ==
    /\ 1 \in RaisedCalls
    /\ done[1].site = "run"
    /\ done[1].exc = "KeyError"
    /\ 2 \in ReturnedCalls
    /\ collections[done[2].result] = <<"arrival1", "arrival2">>

\* C9: overlapping calls never share an engine or a returned collection,
\* an engine holds the arrivals of its own call's run, and a returned
\* collection holds, for as long as it exists, exactly what its own call's
\* run produced.
C9_CallsIndependent ==
    /\ \A c1, c2 \in DOMAIN frames :
          c1 # c2 => frames[c1].engine # frames[c2].engine
    /\ \A c \in DOMAIN frames :
          frames[c].pc = "ret" => EngineOf(c).arrivals = frames[c].out
    /\ \A c1, c2 \in ReturnedCalls :
          c1 # c2 => done[c1].result # done[c2].result
    /\ \A c \in ReturnedCalls :
          collections[done[c].result] = done[c].out[1]

C9_Witness ==
    /\ 1 \in DOMAIN frames
    /\ frames[1].pc = "ret"
    /\ frames[1].out = Some(<<"arrival1">>)
    /\ 2 \in ReturnedCalls
    /\ done[2].out = Some(<<"arrival2", "arrival1">>)

ExpectedKind(f) ==
    CASE f.method = "get_travel_time" -> "TauP_Time"
      [] f.method = "get_pierce_points" -> "TauP_Pierce"
      [] f.method = "get_ray_paths" -> "TauP_Path"

ExpectedArgs(f) ==
    IF f.method = "get_travel_time"
    THEN <<f.phase_list, BoundModel[1].modelName, f.source_depth_in_km,
           f.distance_in_degree, f.coordinate_list>>
    ELSE <<f.phase_list, BoundModel[1].modelName, f.source_depth_in_km,
           f.distance_in_degree>>

\* C10: a call constructs one engine of its method's kind, runs it once with
\* the caller's print_output and reads arrivals after that; get_travel_time
\* hands over depth, distance and coordinate list as given, the other two
\* depth and distance only.
C10_OneRequestForwarded ==
    /\ \A c \in DOMAIN frames :
          LET f == frames[c]
              e == EngineOf(c)
          IN  /\ e.kind = ExpectedKind(f)
              /\ e.args = ExpectedArgs(f)
              /\ f.pc = "run" => (e.runArgs = <<>> /\ e.arrivals = None)
              /\ f.pc = "ret" =>
                    /\ e.runArgs = <<f.print_output>>
                    /\ f.out # None
                    /\ e.arrivals = f.out
    /\ \A c \in ReturnedCalls : done[c].runs = 1 /\ done[c].out # None
    /\ \A c \in RaisedCalls :
          done[c].runs = (IF done[c].site = "run" THEN 1 ELSE 0)
    /\ nengines = ncalls
          - Cardinality({c \in RaisedCalls : done[c].site = "init"})

C10_Witness ==
    /\ 1 \in ReturnedCalls
    /\ 2 \in DOMAIN frames
    /\ frames[2].method = "get_travel_time"
    /\ frames[2].pc = "ret"
    /\ frames[2].print_output
    /\ frames[2].distance_in_degree # None
    /\ frames[2].coordinate_list # None
    /\ EngineOf(2).args[4] = Some(20)
    /\ EngineOf(2).args[5] = Some(<<13, 14, 50, 200>>)

====
